---- MODULE Spec2Model ----
(***************************************************************************)
(* A model of DynamoDBStoreV3 (src/lib/dynamodb-store-v3.ts): the session  *)
(* store that maps express-session's get/set/touch/destroy onto one        *)
(* DynamoDB table, with the helpers of src/lib/constants.ts.               *)
(*                                                                         *)
(* Optional values (undefined / null in the source) are sequences of       *)
(* length at most one: <<>> is undefined or null, <<v>> is the value v.    *)
(* Time is the millisecond clock Date.now(); it starts one second after    *)
(* the epoch and advances in steps of half a second, so that the floor of  *)
(* toSecondsEpoch is visible.                                              *)
(*                                                                         *)
(* The sessions table is the DynamoDB service as the store's requests see  *)
(* it: an UpdateItem, GetItem or DeleteItem request is applied atomically  *)
(* when it settles, and any request may fail and then changes nothing.     *)
(*                                                                         *)
(* Spec is the store in use on an active table; SpecBoot starts when the   *)
(* constructor returns, with createTable in flight, a table that may not   *)
(* exist and callbacks that may throw; SpecTwo is the store in use while   *)
(* the table holds the record of a second session.                        *)
(***************************************************************************)
EXTENDS Integers, Sequences, FiniteSets, Bags, TLC

(* ------------------------------ bounds -------------------------------- *)

\* the clock advances by at most MaxTicks steps of TickMs milliseconds
MaxTicks == 2
\* calls of the store that may be in flight at the same time
MaxInFlight == 2

(* ----------------------- constants of the source ---------------------- *)

DEFAULT_TTL == 86400000
DEFAULT_TOUCH_INTERVAL == 30000
DEFAULT_KEEP_EXPIRED_POLICY == FALSE
DEFAULT_HASH_PREFIX == "sess_"
\* the divisor of toSecondsEpoch
MsPerSecond == 1000
TickMs == MsPerSecond \div 2

None == <<>>
Some(v) == <<v>>
IsDef(x) == x # <<>>
Val(x) == x[1]

\* the session ids the middleware uses
Sids == {"a"}

\* session payloads the middleware hands to set and touch: an opaque field
\* val (a string, possibly empty), cookie.maxAge and the store's own stamp
NewPayload(v, m) == [val |-> Some(v), maxAge |-> m, updated |-> None]
Payloads == {NewPayload("x", Some(MsPerSecond)), NewPayload("", None)}

\* the options a caller may pass to the constructor
Options(ttl, touchInterval, keepExpired) ==
  [ttl |-> ttl, touchInterval |-> touchInterval, keepExpired |-> keepExpired,
   hashPrefix |-> None]
OptionInputs ==
  {Options(None, None, None),
   Options(Some(MsPerSecond), Some(TickMs), None),
   Options(Some(MsPerSecond), Some(MsPerSecond), Some(TRUE)),
   Options(Some(TickMs), Some(0), Some(FALSE))}

\* the two of them under which a record expires within the clock's range,
\* one for each keepExpired policy
ShortLived == {o \in OptionInputs : IsDef(o.ttl) /\ IsDef(o.keepExpired)}

VARIABLES
  sids,      \* the session ids the middleware uses
  given,     \* the options argument the constructor was called with
  options,   \* this.options, as the constructor resolved them
  now,       \* Date.now(), milliseconds
  table,     \* the DynamoDB table: hash key value -> item
  inflight,  \* the bag of calls whose database request is outstanding
  hist,      \* history: per session id, the call whose request last changed
             \* the item (NoHist before any did)
  last,      \* history: the call that took the latest step, as the step
             \* left it (NoCall after a step of the clock or of the service)
  ddbTable,  \* the status of the sessions table in DynamoDB: "absent",
             \* "creating" or "active"
  throwing   \* whether the callbacks the caller passes throw when invoked

vars ==
  <<sids, given, options, now, table, inflight, hist, last, ddbTable, throwing>>

\* what is fixed when the constructor returns
conf == <<sids, given, options, throwing>>

(* ------------------------------ helpers ------------------------------- *)

\* JavaScript truthiness of an optional number, string and boolean
TruthyNum(x) == IsDef(x) /\ Val(x) # 0
TruthyStr(x) == IsDef(x) /\ Val(x) # ""
TruthyBool(x) == IsDef(x) /\ Val(x)

\* constructor: this.options = { ... option ? option : DEFAULT ... }
ResolveOptions(o) ==
  [ttl |-> IF TruthyNum(o.ttl) THEN o.ttl ELSE Some(DEFAULT_TTL),
   touchInterval |->
     IF TruthyNum(o.touchInterval) THEN Val(o.touchInterval)
     ELSE DEFAULT_TOUCH_INTERVAL,
   keepExpired |->
     IF TruthyBool(o.keepExpired) THEN Val(o.keepExpired)
     ELSE DEFAULT_KEEP_EXPIRED_POLICY,
   hashPrefix |->
     IF TruthyStr(o.hashPrefix) THEN Val(o.hashPrefix) ELSE DEFAULT_HASH_PREFIX]

\* a conversion that leaves the instant in milliseconds
toMillisEpoch(ms) == ms

\* toSecondsEpoch(date) = Math.floor(date.getTime() / 1000)
toSecondsEpoch(ms) == ms \div MsPerSecond

\* an isExpired that lets a record live through the second it expires in
isExpiredStrict(expires, t) == expires = 0 \/ expires < toSecondsEpoch(t)

\* isExpired(expires) = !expires || expires <= toSecondsEpoch(new Date())
isExpired(expires, t) == expires = 0 \/ expires <= toSecondsEpoch(t)

\* a getSessionID that gives every session id the same key
getSessionIDFixed(sid) == options.hashPrefix \o "b"

\* getSessionID(sid) = `${hashPrefix}${sid}`
getSessionID(sid) == options.hashPrefix \o sid

\* a getExpiration that ignores the configured ttl
getExpirationDefault(sess, t) == t + DEFAULT_TTL

\* getExpiration(sess): an instant in milliseconds
getExpiration(sess, t) ==
  IF options.ttl # None THEN t + Val(options.ttl)
  ELSE IF IsDef(sess.maxAge) THEN t + Val(sess.maxAge)
  ELSE t + DEFAULT_TTL

\* the document client's marshallOptions: convertEmptyValues turns an empty
\* string into NULL, removeUndefinedValues drops undefined members
Marshall(p) ==
  [p EXCEPT !.val = IF IsDef(p.val) /\ Val(p.val) = "" THEN None ELSE p.val]

\* unmarshalling (wrapNumbers: false) gives NULL back as null
Unmarshall(d) == d

(* --------------------------- the database ----------------------------- *)

\* an item has the data attribute and expires
PutItem(t, key, item) ==
  [k \in DOMAIN t \cup {key} |-> IF k = key THEN item ELSE t[k]]

DeleteItem(t, key) == [k \in DOMAIN t \ {key} |-> t[k]]

GetItem(t, key) == IF key \in DOMAIN t THEN Some(t[key]) ELSE None

\* a request: its kind, Key and the expression's values; and, as history, the
\* instant `at` at which the call that issued it read the clock and the
\* payload `src` the set was called with (less its `updated` member, which
\* set overwrites)
NoReq == [kind |-> "none", key |-> "", data |-> None, updated |-> 0,
          expires |-> 0, at |-> 0, src |-> None]

\* set: UpdateExpression 'SET #field0 = :value0, expires = :e'
SetRequest(key, data, expires, t, src) ==
  [kind |-> "set", key |-> key, data |-> Some(data), updated |-> 0,
   expires |-> expires, at |-> t, src |-> Some(src)]

\* touch: UpdateExpression 'set expires = :e, <dataAttribute>.#up = :n'
TouchRequest(key, expires, t) ==
  [kind |-> "touch", key |-> key, data |-> None, updated |-> t,
   expires |-> expires, at |-> t, src |-> None]

GetRequest(key) == [NoReq EXCEPT !.kind = "get", !.key = key]

DeleteRequest(key) == [NoReq EXCEPT !.kind = "delete", !.key = key]

\* tableExists: DescribeTableCommand({TableName})
DescribeRequest == [NoReq EXCEPT !.kind = "describe"]

\* createTable: CreateTableCommand({TableName, KeySchema, ...})
CreateRequest == [NoReq EXCEPT !.kind = "create"]

\* the outcomes a request on the items of the table can have: it is rejected
\* (ResourceNotFoundException) unless the table is active, and may be
\* rejected for any other reason when it is
Outcomes == IF ddbTable = "active" THEN BOOLEAN ELSE {FALSE}

\* DescribeTable is fulfilled only for a table that exists, CreateTable only
\* for one that does not
DescribeOutcomes == IF ddbTable = "absent" THEN {FALSE} ELSE BOOLEAN
CreateOutcomes == IF ddbTable = "absent" THEN BOOLEAN ELSE {FALSE}

\* UpdateItem creates the item when 'SET #field0 = ...' names a top-level
\* attribute; the nested path of touch is invalid when the item (and so its
\* data attribute) does not exist, and the request is rejected
UpdateAccepted(t, r) == r.kind = "set" \/ r.key \in DOMAIN t

\* an update in which touch sets expires alone
ApplyUpdateExpiresOnly(t, r) ==
  IF r.kind = "set"
  THEN PutItem(t, r.key, [data |-> Val(r.data), expires |-> r.expires])
  ELSE PutItem(t, r.key, [t[r.key] EXCEPT !.expires = r.expires])

\* the item after 'SET #field0 = :value0, expires = :e' (set) and after
\* 'set expires = :e, <dataAttribute>.#up = :n' (touch)
ApplyUpdate(t, r) ==
  IF r.kind = "set"
  THEN PutItem(t, r.key, [data |-> Val(r.data), expires |-> r.expires])
  ELSE PutItem(t, r.key,
         [data |-> [t[r.key].data EXCEPT !.updated = Some(r.updated)],
          expires |-> r.expires])

\* history: the call whose request last changed the item of a session id: its
\* kind, the instant at which it read the clock (set and touch) and the
\* payload of the set that stored the item
NoHist == [op |-> "none", at |-> 0, src |-> None]

Changed(h, c) ==
  [h EXCEPT ![c.sid] =
     IF c.req.kind = "set" THEN [op |-> c.op, at |-> c.req.at, src |-> c.req.src]
     ELSE IF c.req.kind = "touch" THEN [op |-> c.op, at |-> c.req.at, src |-> @.src]
     ELSE [op |-> c.op, at |-> 0, src |-> None]]

(* ------------------------------ calls --------------------------------- *)

\* the arguments of one callback invocation: n of them, the error and the
\* session among them
Cb(n, err, sess) == [n |-> n, err |-> err, sess |-> sess]

\* a call of the store: the request it waits for, the kinds `sent` of the
\* requests it issued, the outcomes res of those that settled and the
\* callback invocations cbs it made. The record
\* of a call in `last` also holds, as history, the payload sess it was called
\* with, the item `seen` that its read returned, the instant tRead of that
\* read, the value `why` of hist at that instant and, for a touch whose
\* payload carries the record's current `updated` stamp, the time `age`
\* since the call that wrote the stamp read the clock
NewCall(op, sid, sess) ==
  [op |-> op, sid |-> sid, pc |-> "start", req |-> NoReq, sent |-> <<>>,
   res |-> <<>>, cbs |-> <<>>, sess |-> sess, seen |-> None, tRead |-> 0, why |-> NoHist,
   age |-> None]

NoCall == [NewCall("none", "", None) EXCEPT !.pc = "done"]

\* what a call in flight keeps: its request and its callback
Pending(c) ==
  [c EXCEPT !.sess = None, !.seen = None, !.tRead = 0, !.why = NoHist,
            !.age = None]

Remove(c) == inflight (-) SetToBag({c})

\* a call that sends every request twice
IssueTwice(c, req) ==
  [c EXCEPT !.req = req, !.sent = Append(Append(@, req.kind), req.kind)]

\* this.dynamoDBClient.send(command): the call issues a request
Issue(c, req) == [c EXCEPT !.req = req, !.sent = Append(@, req.kind)]

\* what a callback that throws throws
Thrown == "CallbackError"

\* a callback invoked in a try block whose catch block invokes it too: when
\* the invocation `first` throws, the catch block makes the invocation `again`
InTry(first, again) == IF throwing THEN <<first, again>> ELSE <<first>>

\* the call issued a request and waits for it
Await(c) ==
  /\ inflight' = inflight (+) SetToBag({Pending(c)})
  /\ last' = c

\* the call has returned and made its last callback
Complete(c) == last' = [c EXCEPT !.pc = "done", !.req = NoReq]

CanStart == BagCardinality(inflight) < MaxInFlight

\* the payloads the middleware may pass for sid: a new session, for touch
\* also the session as it is in the table, or (a caller's slip) nothing
Held(sid) ==
  IF getSessionID(sid) \in DOMAIN table
  THEN {Some(Unmarshall(table[getSessionID(sid)].data))}
  ELSE {}

SetInputs(sid) == {None} \cup {Some(p) : p \in Payloads}

TouchInputs(sid) == {None} \cup {Some(p) : p \in Payloads} \cup Held(sid)

(* ------------------------------- set ---------------------------------- *)

\* a set that stamps `updated` with Date.now(), as touch does
SetStampMillis(t) == t

\* line 138: sess.updated = toSecondsEpoch(new Date())
SetStamp(t) == toSecondsEpoch(t)

\* a set that ends .then(() => callback()).catch(callback)
SetSettledWithError(ok) ==
  IF ok THEN <<Cb(0, None, None)>> ELSE <<Cb(1, Some("DbError"), None)>>

\* line 153: .finally(callback) calls callback with no argument, whether the
\* request was fulfilled or rejected
SetSettled(ok) == <<Cb(0, None, None)>>

Set(sid, sess) ==
  /\ CanStart
  /\ LET c == NewCall("set", sid, sess) IN
     IF sess = None
     THEN \* line 138 throws a TypeError, caught at line 154: callback(e)
          /\ Complete([c EXCEPT !.cbs = <<Cb(1, Some("TypeError"), None)>>])
          /\ UNCHANGED <<conf, ddbTable, now, table, inflight, hist>>
     ELSE LET expires == toSecondsEpoch(getExpiration(Val(sess), now))
              stamped == [Val(sess) EXCEPT !.updated = Some(SetStamp(now))]
              req == SetRequest(getSessionID(sid), Marshall(stamped), expires, now,
                                [Val(sess) EXCEPT !.updated = None])
          IN /\ Await(Issue([c EXCEPT !.pc = "update"], req))
             /\ UNCHANGED <<conf, ddbTable, now, table, hist>>

(* ------------------------------ touch --------------------------------- *)

\* history: how long ago the record's `updated` stamp was written, when the
\* payload carries that stamp
StampAge(sid, sess) ==
  LET record == GetItem(table, getSessionID(sid)) IN
  IF sess # None /\ record # None
     /\ Val(sess).updated = Val(record).data.updated
  THEN Some(now - hist[sid].at)
  ELSE None

\* lines 240-243: !sess.updated || sess.updated + touchInterval <= Date.now()
TouchWrites(sess, t) ==
  \/ ~TruthyNum(sess.updated)
  \/ Val(sess.updated) + options.touchInterval <= t

\* line 263: .finally(callback)
TouchSettled(ok) == <<Cb(0, None, None)>>

Touch(sid, sess) ==
  /\ CanStart
  /\ LET c == [NewCall("touch", sid, sess) EXCEPT !.age = StampAge(sid, sess)] IN
     IF sess = None
     THEN \* line 241 throws a TypeError, caught at line 270: callback()
          /\ Complete([c EXCEPT !.cbs = <<Cb(0, None, None)>>])
          /\ UNCHANGED <<conf, ddbTable, now, table, inflight, hist>>
     ELSE IF TouchWrites(Val(sess), now)
     THEN LET expires == toSecondsEpoch(getExpiration(Val(sess), now))
              req == TouchRequest(getSessionID(sid), expires, now)
          IN /\ Await(Issue([c EXCEPT !.pc = "update"], req))
             /\ UNCHANGED <<conf, ddbTable, now, table, hist>>
     ELSE \* lines 265-268: the touch is skipped, callback(); line 273 when
          \* that throws
          /\ Complete([c EXCEPT !.cbs =
               InTry(Cb(0, None, None), Cb(0, None, None))])
          /\ UNCHANGED <<conf, ddbTable, now, table, inflight, hist>>

\* the UpdateItem request of a set or a touch settles
DbUpdate(c, ok) ==
  /\ c.pc = "update"
  /\ LET done == ok /\ UpdateAccepted(table, c.req)
     IN /\ table' = IF done THEN ApplyUpdate(table, c.req) ELSE table
        /\ Complete([c EXCEPT
             !.res = Append(@, IF done THEN "ok" ELSE "fail"),
             !.cbs = @ \o (IF c.op = "set" THEN SetSettled(done)
                           ELSE TouchSettled(done))])
        /\ hist' = IF done THEN Changed(hist, c) ELSE hist
        /\ inflight' = Remove(c)
        /\ UNCHANGED <<conf, ddbTable, now>>

(* ------------------------- get and destroy ---------------------------- *)

Get(sid) ==
  /\ CanStart
  /\ Await(Issue([NewCall("get", sid, None) EXCEPT !.pc = "read"],
                 GetRequest(getSessionID(sid))))
  /\ UNCHANGED <<conf, ddbTable, now, table, hist>>

\* a destroy that uses the session id as the Key, without the prefix
DestroyKeyUnprefixed(sid) == sid

\* lines 211-216: the Key of destroy's DeleteCommand
DestroyKey(sid) == getSessionID(sid)

Destroy(sid) ==
  /\ CanStart
  /\ Await(Issue([NewCall("destroy", sid, None) EXCEPT !.pc = "delete"],
                 DeleteRequest(DestroyKey(sid))))
  /\ UNCHANGED <<conf, ddbTable, now, table, hist>>

\* a store that never deletes on read, and one that always does
handleExpiredAlwaysKeep == "keep"
handleExpiredAlwaysDestroy == "destroy"

\* handleExpiredSession: "keep" calls back with no argument, "destroy" calls
\* this.destroy(sid, callback)
handleExpiredSession == IF options.keepExpired THEN "keep" ELSE "destroy"

\* lines 186-197: what get does with the record it read at instant t
Classify(record, t) ==
  IF record = None THEN "notfound"
  ELSE IF isExpired(Val(record).expires, t) THEN "expired"
  ELSE "found"

\* the GetItem request of a get settles
DbGet(c, ok) ==
  /\ c.pc = "read"
  /\ LET record == GetItem(table, c.req.key)
         read == [c EXCEPT !.res = Append(@, "ok"), !.seen = record,
                           !.tRead = now, !.why = hist[c.sid]]
     IN /\ IF ~ok
           THEN \* line 200: callback(e)
                /\ Complete([c EXCEPT !.res = Append(@, "fail"),
                     !.cbs = Append(@, Cb(1, Some("DbError"), None))])
                /\ inflight' = Remove(c)
           ELSE IF Classify(record, now) = "notfound"
           THEN \* line 188: callback(null, null); line 200 when that throws
                /\ Complete([read EXCEPT !.cbs =
                     InTry(Cb(2, None, None), Cb(1, Some(Thrown), None))])
                /\ inflight' = Remove(c)
           ELSE IF Classify(record, now) = "found"
           THEN \* line 196: callback(null, record[dataAttribute]); line 200
                \* when that throws
                /\ Complete([read EXCEPT !.cbs =
                     InTry(Cb(2, None, Some(Unmarshall(Val(record).data))),
                           Cb(1, Some(Thrown), None))])
                /\ inflight' = Remove(c)
           ELSE IF handleExpiredSession = "keep"
           THEN \* line 314: callback(), in a promise that get does not await
                /\ Complete([read EXCEPT !.cbs = Append(@, Cb(0, None, None))])
                /\ inflight' = Remove(c)
           ELSE \* line 317: this.destroy(sid, callback)
                /\ LET next == Issue([read EXCEPT !.pc = "delete"],
                                     DeleteRequest(DestroyKey(c.sid)))
                   IN /\ inflight' = Remove(c) (+) SetToBag({Pending(next)})
                      /\ last' = next
        /\ UNCHANGED <<conf, ddbTable, now, table, hist>>

\* the DeleteItem request of a destroy settles: callback(null) at line 222
\* (and line 227 when that throws), or callback(e) at line 227
DbDelete(c, ok) ==
  /\ c.pc = "delete"
  /\ table' = IF ok THEN DeleteItem(table, c.req.key) ELSE table
  /\ Complete([c EXCEPT
       !.res = Append(@, IF ok THEN "ok" ELSE "fail"),
       !.cbs = @ \o (IF ok THEN InTry(Cb(1, None, None),
                                      Cb(1, Some(Thrown), None))
                     ELSE <<Cb(1, Some("DbError"), None)>>)])
  /\ hist' = IF ok THEN Changed(hist, c) ELSE hist
  /\ inflight' = Remove(c)
  /\ UNCHANGED <<conf, ddbTable, now>>

(* --------------------------- createTable ------------------------------ *)

\* the call of createTable that the constructor makes (line 91): it runs to
\* the await of tableExists, with the DescribeTable request outstanding
Construct ==
  Issue([NewCall("init", "", None) EXCEPT !.pc = "describe"], DescribeRequest)

\* a tableExists that reports no table whatever DescribeTable answered
tableExistsNever(ok) == FALSE

\* tableExists: true when DescribeTable was fulfilled, false when it was
\* rejected, for whatever reason
tableExists(ok) == ok

\* the DescribeTable request settles and createTable resumes: it sends
\* CreateTable when tableExists returned false, without awaiting it, and
\* calls callback() at line 120 (and callback(e) at line 123 when that throws)
DbDescribe(c, ok) ==
  /\ c.pc = "describe"
  /\ LET called == [c EXCEPT
           !.res = Append(@, IF ok THEN "ok" ELSE "fail"),
           !.cbs = InTry(Cb(0, None, None), Cb(1, Some(Thrown), None))]
     IN IF tableExists(ok)
        THEN /\ Complete(called)
             /\ inflight' = Remove(c)
        ELSE LET next == Issue([called EXCEPT !.pc = "create"], CreateRequest)
             IN /\ inflight' = Remove(c) (+) SetToBag({Pending(next)})
                /\ last' = next
  /\ UNCHANGED <<conf, ddbTable, now, table, hist>>

\* the CreateTable request settles; nothing waits for it
DbCreate(c, ok) ==
  /\ c.pc = "create"
  /\ ddbTable' = IF ok THEN "creating" ELSE ddbTable
  /\ Complete([c EXCEPT !.res = Append(@, IF ok THEN "ok" ELSE "fail")])
  /\ inflight' = Remove(c)
  /\ UNCHANGED <<conf, now, table, hist>>

\* DynamoDB finishes creating the table
Activate ==
  /\ ddbTable = "creating"
  /\ ddbTable' = "active"
  /\ last' = NoCall
  /\ UNCHANGED <<conf, now, table, inflight, hist>>

(* ------------------------------ clock --------------------------------- *)

Tick ==
  /\ now < MsPerSecond + MaxTicks * TickMs
  /\ now' = now + TickMs
  /\ last' = NoCall
  /\ UNCHANGED <<conf, ddbTable, table, inflight, hist>>

(* -------------------------- specification ----------------------------- *)

Init ==
  /\ sids = Sids
  /\ given \in OptionInputs
  /\ options = ResolveOptions(given)
  /\ now = MsPerSecond
  /\ table = << >>
  /\ inflight = EmptyBag
  /\ hist = [s \in sids |-> NoHist]
  /\ last = NoCall
  /\ ddbTable = "active"
  /\ throwing = FALSE

Next ==
  \/ \E sid \in sids : \E sess \in SetInputs(sid) : Set(sid, sess)
  \/ \E sid \in sids : \E sess \in TouchInputs(sid) : Touch(sid, sess)
  \/ \E sid \in sids : Get(sid)
  \/ \E sid \in sids : Destroy(sid)
  \/ \E c \in BagToSet(inflight), ok \in Outcomes : DbUpdate(c, ok)
  \/ \E c \in BagToSet(inflight), ok \in Outcomes : DbGet(c, ok)
  \/ \E c \in BagToSet(inflight), ok \in Outcomes : DbDelete(c, ok)
  \/ Tick

\* the store in use, its table created and its callbacks returning
Spec == Init /\ [][Next]_vars

\* the store in use for one session while the table holds the record of
\* another, which a save stored at the epoch; the prefix of the hash key is
\* the default or one the caller chose
Prefixes == {None, Some("s:")}

Others == {"b"}

Saved(sid, sess, t) ==
  [k \in {getSessionID(sid)} |->
     [data |-> Marshall([sess EXCEPT !.updated = Some(SetStamp(t))]),
      expires |-> toSecondsEpoch(getExpiration(sess, t))]]

InitTwo ==
  /\ sids = Sids
  /\ \E p \in Prefixes :
       given = [Options(None, None, None) EXCEPT !.hashPrefix = p]
  /\ options = ResolveOptions(given)
  /\ now = MsPerSecond
  /\ \E sid \in Others, sess \in Payloads : table = Saved(sid, sess, 0)
  /\ inflight = EmptyBag
  /\ hist = [s \in sids |-> NoHist]
  /\ last = NoCall
  /\ ddbTable = "active"
  /\ throwing = FALSE

SpecTwo == InitTwo /\ [][Next]_vars

\* the store from the return of its constructor, createTable in flight, with
\* or without a table in DynamoDB and with callbacks that return or throw
InitBoot ==
  /\ sids = Sids
  /\ given \in ShortLived
  /\ options = ResolveOptions(given)
  /\ now = MsPerSecond
  /\ table = << >>
  /\ inflight = SetToBag({Pending(Construct)})
  /\ hist = [s \in sids |-> NoHist]
  /\ last = Construct
  /\ ddbTable \in {"absent", "active"}
  /\ throwing \in BOOLEAN

NextBoot ==
  \/ Next
  \/ \E c \in BagToSet(inflight), ok \in DescribeOutcomes : DbDescribe(c, ok)
  \/ \E c \in BagToSet(inflight), ok \in CreateOutcomes : DbCreate(c, ok)
  \/ Activate

SpecBoot == InitBoot /\ [][NextBoot]_vars

(* ------------------------------ claims -------------------------------- *)

\* the step `last` records is the read of a get, and the read succeeded
JustRead == last.op = "get" /\ last.res = <<"ok">>

\* a get read the item when the request that last changed it was that of a
\* set, at the instant at which that set read the clock
ReadsBackSave ==
  /\ JustRead
  /\ last.why.op = "set"
  /\ last.why.at = last.tRead

\* the payload a set was called with, plus the store's `updated` stamp
Stamped(h) == [Val(h.src) EXCEPT !.updated = Some(toSecondsEpoch(h.at))]

\* C1, as stated: a load that follows a completed save with no elapsed time
\* calls back with no error and the saved payload plus the `updated` stamp,
\* for every configured ttl.
C1_RoundTripAnyTtl ==
  ReadsBackSave =>
    /\ last.pc = "done"
    /\ last.cbs = <<Cb(2, None, Some(Stamped(last.why)))>>

\* the members of the payload are values the marshaller stores as they are
Storable(p) == p.val # Some("")

\* C1, amended: the round trip holds when the resolved ttl is at least one
\* second and the payload holds no empty string.
C1_RoundTrip ==
  (/\ ReadsBackSave
   /\ Val(options.ttl) >= MsPerSecond
   /\ Storable(Val(last.why.src)))
  => /\ last.pc = "done"
     /\ last.cbs = <<Cb(2, None, Some(Stamped(last.why)))>>

C1_Witness ==
  /\ ReadsBackSave
  /\ Val(options.ttl) = MsPerSecond
  /\ Storable(Val(last.why.src))
  /\ last.cbs # <<>>
  /\ last.cbs[1].sess # None

\* the record a get read was expired at the instant of the read: expires is
\* falsy, or not after that instant in whole seconds
SawExpired ==
  /\ JustRead
  /\ last.seen # None
  /\ \/ Val(last.seen).expires = 0
     \/ Val(last.seen).expires <= last.tRead \div MsPerSecond

\* the callback got no error and no session
NoSession(cb) == cb.err = None /\ cb.sess = None

\* C2: a load after a successful destroy of the same session id, with no
\* save in between, finds no item under prefix + sid and calls back
\* callback(null, null).
C2_LoadAfterDestroy ==
  (JustRead /\ last.why.op = "destroy") =>
    /\ options.hashPrefix \o last.sid \notin DOMAIN table
    /\ last.seen = None
    /\ last.pc = "done"
    /\ last.cbs = <<Cb(2, None, None)>>

C2_Witness ==
  /\ JustRead
  /\ last.why.op = "destroy"
  /\ last.cbs = <<Cb(2, None, None)>>

\* C3: with keepExpired = false, a load that finds an expired record issues
\* the delete before it calls back; when the delete has succeeded and the
\* load has called back the item is gone, and a load that follows calls back
\* callback(null, null).
C3_ExpiredIsDeleted ==
  ~options.keepExpired =>
    /\ SawExpired =>
         /\ last.pc = "delete"
         /\ last.cbs = <<>>
         /\ last.req = DeleteRequest(options.hashPrefix \o last.sid)
    /\ (last.op = "get" /\ last.res = <<"ok", "ok">>) =>
         /\ last.pc = "done"
         /\ Len(last.cbs) = 1
         /\ NoSession(last.cbs[1])
         /\ options.hashPrefix \o last.sid \notin DOMAIN table
    /\ (JustRead /\ last.why.op = "get") =>
         /\ last.seen = None
         /\ last.cbs = <<Cb(2, None, None)>>

C3_Witness ==
  /\ ~options.keepExpired
  /\ JustRead
  /\ last.why.op = "get"
  /\ last.cbs = <<Cb(2, None, None)>>

\* C4: with keepExpired = true, a load of an expired record calls back with
\* no session and issues no delete; a step that changes the table is never
\* the step of a load but that of a set, touch or destroy; and an item that
\* is expired and is not rewritten stays expired.
C4_ExpiredIsKept ==
  /\ [](options.keepExpired =>
         /\ SawExpired => last.pc = "done" /\ last.cbs = <<Cb(0, None, None)>>
         /\ \A c \in BagToSet(inflight) : c.op = "get" => c.pc = "read")
  /\ [][options.keepExpired =>
         /\ table' # table => last'.op \in {"set", "touch", "destroy"}
         /\ \A k \in DOMAIN table \cap DOMAIN table' :
              (/\ table'[k] = table[k]
               /\ table[k].expires <= now \div MsPerSecond)
              => table'[k].expires <= now' \div MsPerSecond]_vars

\* a second load is in flight after the first found the record expired and
\* left it in place
C4_Witness ==
  /\ options.keepExpired
  /\ last.op = "get" /\ last.pc = "read"
  /\ BagCardinality(inflight) = 1
  /\ hist[last.sid].op \in {"set", "touch"}
  /\ options.hashPrefix \o last.sid \in DOMAIN table
  /\ table[options.hashPrefix \o last.sid].expires <= now \div MsPerSecond

\* C5: a touch whose payload carries the record's current `updated` stamp
\* issues no write and calls back at once when less than touchInterval ms
\* have passed since the save or touch that wrote the stamp, and issues one
\* update otherwise.
C5_TouchThrottle ==
  (last.op = "touch" /\ IsDef(last.age)) =>
    IF Val(last.age) < options.touchInterval
    THEN last.pc = "done" /\ last.res = <<>> /\ Len(last.cbs) = 1
    ELSE last.pc = "update" /\ last.req.kind = "touch" /\ last.cbs = <<>>

\* C6: a load calls back callback(null, null) when it read no record, with
\* the stored payload when it read a record whose expires is non-zero and
\* after the instant of the read in seconds, and handles any other record as
\* expired; no callback of a load carries the payload of an expired record.
C6_LoadClassifies ==
  /\ JustRead =>
       IF last.seen = None
       THEN last.pc = "done" /\ last.cbs = <<Cb(2, None, None)>>
       ELSE IF SawExpired
       THEN \/ last.pc = "delete" /\ last.cbs = <<>>
            \/ last.pc = "done" /\ last.cbs = <<Cb(0, None, None)>>
       ELSE /\ last.pc = "done"
            /\ last.cbs = <<Cb(2, None, Some(Val(last.seen).data))>>
  /\ last.op = "get" =>
       \A k \in 1..Len(last.cbs) : last.cbs[k].sess # None => ~SawExpired

\* a load read a record in the very second it expires in
C6_Witness ==
  /\ SawExpired
  /\ Val(last.seen).expires = last.tRead \div MsPerSecond

\* a get read the item when the request that last changed it was that of a
\* set, in a store with a ttl the caller fixed and keepExpired = false
ReadsSaved ==
  /\ JustRead
  /\ last.why.op = "set"
  /\ given.ttl # None
  /\ ~options.keepExpired

\* C7, as stated: a session saved at t0 with ttl T is returned by every
\* load before t0 + T, and deleted by a load at or after t0 + T.
C7_LifetimeIsTtl ==
  /\ ReadsSaved =>
       IF last.tRead < last.why.at + Val(given.ttl)
       THEN /\ last.pc = "done"
            /\ last.cbs = <<Cb(2, None, Some(Val(last.seen).data))>>
       ELSE last.pc = "delete"
  /\ (last.op = "get" /\ last.res = <<"ok", "ok">>) =>
       /\ Len(last.cbs) = 1 /\ NoSession(last.cbs[1])
       /\ options.hashPrefix \o last.sid \notin DOMAIN table

\* C7, amended: the session is returned by every load in a second before
\* the second of t0 + T, and deleted by a load in that second or later.
C7_LifetimeInSeconds ==
  /\ ReadsSaved =>
       IF last.tRead \div MsPerSecond
            < (last.why.at + Val(given.ttl)) \div MsPerSecond
       THEN /\ last.pc = "done"
            /\ last.cbs = <<Cb(2, None, Some(Val(last.seen).data))>>
       ELSE last.pc = "delete"
  /\ (last.op = "get" /\ last.res = <<"ok", "ok">>) =>
       /\ Len(last.cbs) = 1 /\ NoSession(last.cbs[1])
       /\ options.hashPrefix \o last.sid \notin DOMAIN table

\* a load deletes a session before t0 + T
C7_Witness ==
  /\ ReadsSaved
  /\ last.tRead < last.why.at + Val(given.ttl)
  /\ last.pc = "delete"

\* the expiration C8 states for a call at instant t with payload p
ClaimedExpiration(p, t) ==
  IF given.ttl # None THEN t + Val(given.ttl)
  ELSE IF IsDef(p.maxAge) THEN t + Val(p.maxAge)
  ELSE t + DEFAULT_TTL

\* C8: set and touch persist expires = now + the ttl the caller configured,
\* else now + the payload's numeric cookie.maxAge, else now + 86400000 ms.
C8_Expiration ==
  (last.op \in {"set", "touch"} /\ last.pc = "update") =>
    last.req.expires =
      ClaimedExpiration(Val(last.sess), last.req.at) \div MsPerSecond

\* C9: when the request of a load, save, touch or destroy fails, the callback
\* gets that error, and the call issues no further request.
C9_ErrorsSurface ==
  (last.pc = "done" /\ \E k \in 1..Len(last.res) : last.res[k] = "fail") =>
    /\ last.res[Len(last.res)] = "fail"
    /\ \A k \in 1..(Len(last.res) - 1) : last.res[k] = "ok"
    /\ last.cbs = <<Cb(1, Some("DbError"), None)>>

\* C10: a save makes no callback while its update is outstanding, one
\* callback with no argument when the update settles, fulfilled or
\* rejected, and one callback with the error when it throws before issuing
\* the update.
C10_SetCallsBackOnce ==
  /\ \A c \in BagToSet(inflight) : c.op = "set" => c.cbs = <<>>
  /\ last.op = "set" =>
       IF last.pc = "update" THEN last.cbs = <<>> /\ last.res = <<>>
       ELSE IF last.res = <<>>
       THEN last.cbs = <<Cb(1, Some("TypeError"), None)>>
       ELSE Len(last.res) = 1 /\ last.cbs = <<Cb(0, None, None)>>

\* a save whose update was rejected has called back
C10_Witness ==
  /\ last.op = "set"
  /\ last.pc = "done"
  /\ last.res = <<"fail">>

\* the calls in flight and the call that took the latest step
Calls == BagToSet(inflight) \cup {last}

\* C11: createTable first probes with DescribeTable; it issues CreateTable
\* if and only if the probe was rejected, at most once; and once the probe
\* has settled it has called back with no error, also while the CreateTable
\* request is outstanding.
C11_Initialization ==
  \A c \in Calls : c.op = "init" =>
    /\ c.sent \in {<<"describe">>, <<"describe", "create">>}
    /\ c.sent = <<"describe", "create">> <=> (c.res # <<>> /\ c.res[1] = "fail")
    /\ c.pc = "describe" => c.res = <<>> /\ c.cbs = <<>>
    /\ c.res # <<>> => c.cbs # <<>> /\ c.cbs[1] = Cb(0, None, None)
    /\ c.pc = "create" => c.res = <<"fail">>

\* a save is issued when initialization has called back, the CreateTable
\* request is outstanding and there is no table yet
C11_Witness ==
  /\ ddbTable = "absent"
  /\ last.op = "set" /\ last.pc = "update"
  /\ \E c \in BagToSet(inflight) :
       c.op = "init" /\ c.pc = "create" /\ c.cbs = <<Cb(0, None, None)>>

\* the requests a call issued that have not settled
Outstanding(c) == Len(c.sent) - Len(c.res)

\* C12: every call has at most one request outstanding; it issues a second
\* request only as the delete after its read or the CreateTable after its
\* probe, when the first has settled; and it issues no request twice.
C12_OneOutstanding ==
  \A c \in Calls :
    /\ Outstanding(c) \in {0, 1}
    /\ c.pc = "done" => Outstanding(c) = 0
    /\ c \in BagToSet(inflight) => Outstanding(c) = 1
    /\ \A i, j \in 1..Len(c.sent) : c.sent[i] = c.sent[j] => i = j
    /\ Len(c.sent) > 1 =>
         /\ c.sent \in {<<"get", "delete">>, <<"describe", "create">>}
         /\ c.res # <<>>

\* a load has read an expired record and waits for its delete while the
\* CreateTable request of initialization is outstanding too
C12_Witness ==
  /\ last.op = "get" /\ last.sent = <<"get", "delete">> /\ last.res = <<"ok">>
  /\ \E c \in BagToSet(inflight) : c.op = "init" /\ c.pc = "create"

\* the instants at which a call can read the clock
Instants == {MsPerSecond + n * TickMs : n \in 0..MaxTicks}

\* the values of expires in whole seconds: the floor of an instant of
\* expiration, which is an instant of the clock plus the resolved ttl
SecondsOfExpiration ==
  {(t + Val(options.ttl)) \div MsPerSecond : t \in Instants}

\* C13: the expires of every UpdateItem request of a save or a touch, and of
\* every record in the table, is in whole seconds since the epoch: the floor
\* of an instant in milliseconds divided by 1000.
C13_ExpiresInSeconds ==
  /\ \A c \in Calls : c.req.kind \in {"set", "touch"} =>
       c.req.expires = (c.req.at + Val(options.ttl)) \div MsPerSecond
  /\ \A k \in DOMAIN table : table[k].expires \in SecondsOfExpiration

\* a touch, issued at an instant that is not a whole second, has rewritten
\* the expires of a record
C13_Witness ==
  /\ last.op = "touch" /\ last.res = <<"ok">>
  /\ hist[last.sid].at % MsPerSecond # 0
  /\ table[options.hashPrefix \o last.sid].expires * MsPerSecond
       < hist[last.sid].at + Val(options.ttl)

\* the hash key value of a session id
KeyOf(sid) == options.hashPrefix \o sid

\* C14: every request of a load, save, touch or destroy for a session id
\* has the Key prefix + sid; the prefix never changes; and a step of a call
\* for a session id leaves every item under another key as it was.
C14_OwnKeyOnly ==
  /\ [](\A c \in Calls :
          c.req.kind \in {"set", "touch", "get", "delete"} =>
            c.req.key = KeyOf(c.sid))
  /\ [][/\ options' = options
        /\ \A k \in DOMAIN table \cup DOMAIN table' :
             k # KeyOf(last'.sid) =>
               /\ k \in DOMAIN table \cap DOMAIN table'
               /\ table'[k] = table[k]]_vars

\* a destroy has deleted the record of one session and the record of the
\* other is in the table, under the prefix the caller chose
C14_Witness ==
  /\ last.op = "destroy" /\ last.res = <<"ok">>
  /\ hist[last.sid].op = "destroy"
  /\ options.hashPrefix = "s:"
  /\ DOMAIN table = {KeyOf(sid) : sid \in Others}

\* the value of an option as C15 states it: the caller's when the caller
\* supplied one, the default otherwise
Supplied(x, default) == IF IsDef(x) THEN Val(x) ELSE default

\* C15: the resolved configuration holds the caller's value of every option
\* the caller supplied, 0 and "" included, and the default of every option
\* the caller omitted.
C15_ConfigResolution ==
  /\ Val(options.ttl) = Supplied(given.ttl, DEFAULT_TTL)
  /\ options.touchInterval = Supplied(given.touchInterval, DEFAULT_TOUCH_INTERVAL)
  /\ options.keepExpired = Supplied(given.keepExpired, DEFAULT_KEEP_EXPIRED_POLICY)
  /\ options.hashPrefix = Supplied(given.hashPrefix, DEFAULT_HASH_PREFIX)

\* C16: with a fixed ttl, the write of a save or a touch that is applied to
\* an existing record never lowers its expires, in whatever order the
\* database applies the writes of the calls in flight.
C16_ExpiryOnlyExtended ==
  [][\A k \in DOMAIN table \cap DOMAIN table' :
       table'[k].expires >= table[k].expires]_vars

\* C17: the delete that a load issues after reading an expired record only
\* ever removes a record that is expired at the moment the delete is applied.
C17_DeletesOnlyExpired ==
  [][\A k \in DOMAIN table \ DOMAIN table' :
       last'.op = "get" =>
         \/ table[k].expires = 0
         \/ table[k].expires <= now \div MsPerSecond]_vars

\* C18: a load, a destroy, a touch and the initialization invoke their
\* callback at most once, and exactly once by the time they are done, on
\* every path, also when the callback throws.
C18_CallbackAtMostOnce ==
  \A c \in Calls : c.op \in {"get", "destroy", "touch", "init"} =>
    /\ Len(c.cbs) <= 1
    /\ c.pc = "done" => Len(c.cbs) = 1

\* C19: the write of a touch changes, in the record of its session id, only
\* expires and the `updated` member of the data attribute, which becomes the
\* millisecond instant at which the touch read the clock; a touch that is
\* skipped or rejected, and a load that issues no delete, change nothing.
C19_TouchFrame ==
  [][/\ (last'.op = "touch" /\ last'.res = <<"ok">>) =>
          LET k == KeyOf(last'.sid)
              t == hist'[last'.sid].at
          IN /\ k \in DOMAIN table
             /\ DOMAIN table' = DOMAIN table
             /\ table'[k].data = [table[k].data EXCEPT !.updated = Some(t)]
             /\ table'[k].expires = (t + Val(options.ttl)) \div MsPerSecond
             /\ t <= now
     /\ (last'.op = "touch" /\ last'.res # <<"ok">>) => table' = table
     /\ (last'.op = "get" /\ Len(last'.res) < 2) => table' = table]_vars

\* a touch has stamped a record with an instant in milliseconds and left
\* the member that the save stored
C19_Witness ==
  /\ last.op = "touch" /\ last.res = <<"ok">>
  /\ hist[last.sid].op = "touch"
  /\ table[KeyOf(last.sid)].data.updated = Some(hist[last.sid].at)
  /\ table[KeyOf(last.sid)].data.val = Val(hist[last.sid].src).val
  /\ table[KeyOf(last.sid)].data.val # None

====
